---- MODULE Spec2Model ----
(***************************************************************************)
(* Model of the JAO ingress adapter (src/ingress_adapter_jao/adapter.py):  *)
(* the CorridorState checkpoint store, JaoClient.get_auctions and the      *)
(* polling loop of JaoAdapter.retrieve_data, followed by save_state.       *)
(*                                                                         *)
(* Strings are modelled by what the code does with them:                   *)
(*   - a corridor name is the sequence of its characters, so that the      *)
(*     substring filter is computed;                                       *)
(*   - a date string is a record [y, m, d, t], t being the text that       *)
(*     follows the date ("" or a "T..." time part), so that split('T'),    *)
(*     strptime and strftime are conversions and not the identity;         *)
(*   - a datetime is a record [y, m, d, tod], tod the time of day in       *)
(*     seconds.                                                            *)
(***************************************************************************)
EXTENDS Integers, Sequences, FiniteSets, TLC

VARIABLES
    persisted,              \* the checkpoint document held by the ingress sink
    json_content,           \* CorridorState.json_content (self.state is json_content[horizon])
    horizon,                \* CorridorState.horizon / JaoClient.horizon
    default_value,          \* CorridorState.default_value
    current_date,           \* retrieve_data: current_date
    corridors,              \* retrieve_data: corridors (filtered)
    idx,                    \* position of the for loop in corridors
    monthly_date,           \* retrieve_data: the string the store returned for the corridor
    monthly_datetime_obj,   \* retrieve_data: the cursor
    auctions,               \* retrieve_data: result of the last get_auctions call
    all_corridor_actions,   \* retrieve_data: the output sequence
    calls,                  \* the getauctions requests of this run, in order, each with
                            \* whether the server answered it with data
    pc,                     \* position of the run
    run                     \* number of the run since the model started

vars == <<persisted, json_content, horizon, default_value, current_date, corridors, idx,
          monthly_date, monthly_datetime_obj, auctions, all_corridor_actions, calls, pc, run>>

----------------------------------------------------------------------------
(* Bounds of the model *)

\* a run is started only if every start cursor is at most MaxSpan months before 'now'
MaxSpan == 2
\* number of runs of the adapter
MaxRuns == 2
\* length of the corridor listing returned by the API
MaxListing == 2
\* number of records in the checkpoint document the first run loads
MaxLoaded == 1

----------------------------------------------------------------------------
(* Values *)

DK1_DE == <<"D", "K", "1", "-", "D", "E">>
D1_NL  == <<"D", "1", "-", "N", "L">>
XX_YY  == <<"X", "X", "-", "Y", "Y">>

CorridorUniverse == {DK1_DE, D1_NL, XX_YY}

\* the regions of interest, adapter.py line 199
Filters == << <<"D", "K">>, <<"D", "1">>, <<"D", "2">> >>

Horizons == {"Yearly", "Monthly"}

NoTime == ""
Midnight == "T00:00:00"

Str(y, m, d, t) == [y |-> y, m |-> m, d |-> d, t |-> t]
Dt(y, m, d, tod) == [y |-> y, m |-> m, d |-> d, tod |-> tod]

DefaultDates ==
    { Str(2020, 1, 1, NoTime), Str(2020, 1, 31, Midnight), Str(2020, 12, 15, NoTime),
      Str(2021, 1, 31, NoTime) }

StoredDates ==
    { Str(2020, 2, 1, Midnight), Str(2020, 3, 15, NoTime) }

TimesOfDay == {0, 43200}

Clock ==
    { Dt(2020, 3, 15, tod) : tod \in TimesOfDay } \cup
    { Dt(2021, 2, 20, 43200) }

None == "None"
EmptyList == "[]"
Payload == "auctions"
ErrorBody == "bad request"

\* what the JAO server may answer to a getauctions request
Responses ==
    { [status_code |-> 200, content |-> Payload],
      [status_code |-> 200, content |-> EmptyList],
      [status_code |-> 400, content |-> ErrorBody] }

NoDatetime == Dt(0, 0, 0, 0)
NoString == Str(0, 0, 0, NoTime)

----------------------------------------------------------------------------
(* Strings and dates *)

\* sub in s, for sequences of characters
Contains(sub, s) ==
    \E k \in 0..(Len(s) - Len(sub)) :
        \A j \in 1..Len(sub) : s[k + j] = sub[j]

\* s.split('T')[0]
SplitT(s) == [s EXCEPT !.t = NoTime]

\* datetime.strptime(s, '%Y-%m-%d')
strptime(s) == Dt(s.y, s.m, s.d, 0)

\* dt.strftime("%Y-%m-%d")
strftime(dt) == Str(dt.y, dt.m, dt.d, NoTime)

\* dt1 < dt2 with the dates compared and the times of day left out
BeforeDateOnly(dt1, dt2) ==
    \/ dt1.y < dt2.y
    \/ dt1.y = dt2.y /\ dt1.m < dt2.m
    \/ dt1.y = dt2.y /\ dt1.m = dt2.m /\ dt1.d < dt2.d

\* dt1 < dt2 on datetimes
Before(dt1, dt2) ==
    \/ dt1.y < dt2.y
    \/ dt1.y = dt2.y /\ dt1.m < dt2.m
    \/ dt1.y = dt2.y /\ dt1.m = dt2.m /\ dt1.d < dt2.d
    \/ dt1.y = dt2.y /\ dt1.m = dt2.m /\ dt1.d = dt2.d /\ dt1.tod < dt2.tod

IsLeap(y) == (y % 4 = 0) /\ ((y % 100 # 0) \/ (y % 400 = 0))

\* calendar.monthrange(y, m)[1]
DaysInMonth(y, m) ==
    IF m = 2 THEN (IF IsLeap(y) THEN 29 ELSE 28)
    ELSE IF m \in {4, 6, 9, 11} THEN 30 ELSE 31

Min(a, b) == IF a <= b THEN a ELSE b

\* dt + relativedelta(month=1): the month is set to January, not advanced
SetMonthOne(dt) == Dt(dt.y, 1, Min(DaysInMonth(dt.y, 1), dt.d), dt.tod)

\* dt + timedelta(days=30)
AddThirtyDays(dt) ==
    LET day == dt.d + 30
        last == DaysInMonth(dt.y, dt.m)
    IN  IF day <= last THEN Dt(dt.y, dt.m, day, dt.tod)
        ELSE IF dt.m = 12 THEN Dt(dt.y + 1, 1, day - last, dt.tod)
        ELSE Dt(dt.y, dt.m + 1, day - last, dt.tod)

\* dt + relativedelta(months=+1)
AddMonth(dt) ==
    LET month == dt.m + 1
        y2 == IF month > 12 THEN dt.y + 1 ELSE dt.y
        m2 == IF month > 12 THEN month - 12 ELSE month
    IN  Dt(y2, m2, Min(DaysInMonth(y2, m2), dt.d), dt.tod)

\* bound of the model: months from the month of dt1 to the month of dt2
MonthsBetween(dt1, dt2) == (dt2.y * 12 + dt2.m) - (dt1.y * 12 + dt1.m)

----------------------------------------------------------------------------
(* JaoClient *)

\* get_auctions returning the decoded body whatever the status
get_auctions_any_status(response) == response.content

\* JaoClient.get_auctions: the decoded body on status 200, None otherwise
get_auctions(response) ==
    IF response.status_code = 200 THEN response.content ELSE None

\* 'if auctions is not None:' in the place of 'if auctions:'
NotNone(value) == value # None

\* truth value of a get_auctions result in 'if auctions:'
Truthy(value) == value \notin {None, EmptyList}

----------------------------------------------------------------------------
(* CorridorState *)

Record(corridor, date) ==
    [Corridor |-> corridor, LastSuccessfulMonthlyDate |-> date]

\* index of the first record of the list for the corridor, 0 when there is none
RECURSIVE FindFrom(_, _, _)
FindFrom(list, corridor, k) ==
    IF k > Len(list) THEN 0
    ELSE IF list[k].Corridor = corridor THEN k
    ELSE FindFrom(list, corridor, k + 1)

Find(list, corridor) == FindFrom(list, corridor, 1)

\* CorridorState.get_last_successful_monthly_date on the record list
GetDate(list, dflt, corridor) ==
    LET k == Find(list, corridor)
    IN  IF k # 0 THEN SplitT(list[k].LastSuccessfulMonthlyDate) ELSE SplitT(dflt)

\* set_last_successful_monthly_date appending a record without the scan
SetDateAppend(list, corridor, date) == Append(list, Record(corridor, date))

\* set_last_successful_monthly_date replacing the list by the one record
SetDateOnly(list, corridor, date) == << Record(corridor, date) >>

\* CorridorState.set_last_successful_monthly_date on the record list
SetDate(list, corridor, date) ==
    LET k == Find(list, corridor)
    IN  IF k # 0 THEN [list EXCEPT ![k].LastSuccessfulMonthlyDate = date]
        ELSE Append(list, Record(corridor, date))

\* self.state, the list json_content[horizon]
state == json_content[horizon]

get_last_successful_monthly_date(corridor) == GetDate(state, default_value, corridor)

----------------------------------------------------------------------------
(* JaoAdapter *)

\* JaoAdapter.__filter_corridors
RECURSIVE FilterFrom(_, _, _)
FilterFrom(list, filters, k) ==
    IF k > Len(list) THEN <<>>
    ELSE IF \E f \in 1..Len(filters) : Contains(filters[f], list[k])
         THEN <<list[k]>> \o FilterFrom(list, filters, k + 1)
         ELSE FilterFrom(list, filters, k + 1)

filter_corridors(list, filters) == FilterFrom(list, filters, 1)

\* the server answered with data: status 200 and a body that holds auctions
HasData(response) == response.status_code = 200 /\ response.content = Payload

\* the request get_auctions sends for (corridor, from_date), and its outcome
Request(corridor, from_date, response) ==
    [corridor |-> corridor, fromdate |-> from_date, horizon |-> horizon,
     data |-> HasData(response)]

\* the batch retrieve_data records for a successful fetch
AuctionBatch(corridor, from_date, response) ==
    [corridor |-> corridor, from_date |-> from_date, response |-> response]

----------------------------------------------------------------------------
(* Inputs *)

Records == { Record(c, s) : c \in CorridorUniverse, s \in StoredDates }

\* record lists of at most n records, one record per corridor at most
RECURSIVE RecordLists(_)
RecordLists(n) ==
    IF n = 0 THEN { <<>> }
    ELSE LET shorter == RecordLists(n - 1)
         IN  shorter \cup
             UNION { { Append(l, r) : r \in { x \in Records : Find(l, x.Corridor) = 0 } } :
                     l \in { x \in shorter : Len(x) = n - 1 } }

\* corridor listings of at most n corridors, each corridor listed once
RECURSIVE Listings(_)
Listings(n) ==
    IF n = 0 THEN { <<>> }
    ELSE LET shorter == Listings(n - 1)
         IN  shorter \cup
             UNION { { Append(l, c) : c \in { x \in CorridorUniverse :
                                               \A k \in 1..Len(l) : l[k] # x } } :
                     l \in { x \in shorter : Len(x) = n - 1 } }

\* the list the document holds under the horizon the adapter is not configured for
OtherList == << Record(XX_YY, Str(2020, 1, 1, NoTime)) >>

Document(h, list) == [k \in Horizons |-> IF k = h THEN list ELSE OtherList]

----------------------------------------------------------------------------
(* The adapter: construction, retrieve_data, save_state *)

\* JaoAdapter.__init__ / CorridorState.__init__: the state is loaded from the sink
Init ==
    /\ horizon \in Horizons
    /\ default_value \in DefaultDates
    /\ \E list \in RecordLists(MaxLoaded) : persisted = Document(horizon, list)
    /\ json_content = persisted
    /\ current_date = NoDatetime
    /\ corridors = <<>>
    /\ idx = 0
    /\ monthly_date = NoString
    /\ monthly_datetime_obj = NoDatetime
    /\ auctions = None
    /\ all_corridor_actions = <<>>
    /\ calls = <<>>
    /\ pc = "constructed"
    /\ run = 1

\* bound of the model: the start cursors of the run are at most MaxSpan months
\* before now
WithinSpan(list, now) ==
    \A k \in 1..Len(list) :
        MonthsBetween(strptime(get_last_successful_monthly_date(list[k])), now) <= MaxSpan

\* retrieve_data up to the for loop: the clock is read once, the corridors are
\* listed and filtered
RetrieveStart ==
    /\ pc = "constructed"
    /\ \E now \in Clock, listing \in Listings(MaxListing) :
        /\ ~Before(now, current_date)
        /\ WithinSpan(filter_corridors(listing, Filters), now)
        /\ current_date' = now
        /\ corridors' = filter_corridors(listing, Filters)
    /\ all_corridor_actions' = <<>>
    /\ calls' = <<>>
    /\ idx' = 1
    /\ pc' = "for"
    /\ UNCHANGED <<persisted, json_content, horizon, default_value, monthly_date,
                   monthly_datetime_obj, auctions, run>>

\* the for loop takes the next corridor and reads its start cursor from the store
ForNext ==
    /\ pc = "for"
    /\ idx <= Len(corridors)
    /\ monthly_date' = get_last_successful_monthly_date(corridors[idx])
    /\ monthly_datetime_obj' = strptime(monthly_date')
    /\ pc' = "while"
    /\ UNCHANGED <<persisted, json_content, horizon, default_value, current_date,
                   corridors, idx, auctions, all_corridor_actions, calls, run>>

\* an iteration that leaves the while loop of the corridor when the fetch
\* yields nothing
IterationBreakOnFailure(response) ==
    /\ pc = "while"
    /\ Before(monthly_datetime_obj, current_date)
    /\ LET corridor == corridors[idx]
           monthly_datetime_str == strftime(monthly_datetime_obj)
       IN  /\ calls' = Append(calls, Request(corridor, monthly_datetime_str, response))
           /\ auctions' = get_auctions(response)
           /\ IF Truthy(auctions')
              THEN /\ all_corridor_actions' =
                         Append(all_corridor_actions,
                                AuctionBatch(corridor, monthly_datetime_str, auctions'))
                   /\ json_content' =
                         [json_content EXCEPT
                            ![horizon] = SetDate(state, corridor, monthly_datetime_str)]
                   /\ monthly_datetime_obj' = AddMonth(monthly_datetime_obj)
              ELSE /\ monthly_datetime_obj' = current_date
                   /\ UNCHANGED <<all_corridor_actions, json_content>>
    /\ UNCHANGED <<persisted, horizon, default_value, current_date,
                   corridors, idx, monthly_date, pc, run>>

\* one iteration of the while loop, the server answering with response:
\* fetch, record on data, advance the cursor
Iteration(response) ==
    /\ pc = "while"
    /\ Before(monthly_datetime_obj, current_date)
    /\ LET corridor == corridors[idx]
           monthly_datetime_str == strftime(monthly_datetime_obj)
       IN  /\ calls' = Append(calls, Request(corridor, monthly_datetime_str, response))
           /\ auctions' = get_auctions(response)
           /\ IF Truthy(auctions')
              THEN /\ all_corridor_actions' =
                         Append(all_corridor_actions,
                                AuctionBatch(corridor, monthly_datetime_str, auctions'))
                   /\ json_content' =
                         [json_content EXCEPT
                            ![horizon] = SetDate(state, corridor, monthly_datetime_str)]
              ELSE UNCHANGED <<all_corridor_actions, json_content>>
    /\ monthly_datetime_obj' = AddMonth(monthly_datetime_obj)
    /\ UNCHANGED <<persisted, horizon, default_value, current_date,
                   corridors, idx, monthly_date, pc, run>>

WhileStep == \E response \in Responses : Iteration(response)

\* the while loop ends for the corridor
WhileExit ==
    /\ pc = "while"
    /\ ~Before(monthly_datetime_obj, current_date)
    /\ idx' = idx + 1
    /\ pc' = "for"
    /\ UNCHANGED <<persisted, json_content, horizon, default_value, current_date,
                   corridors, monthly_date, monthly_datetime_obj, auctions,
                   all_corridor_actions, calls, run>>

\* retrieve_data returns the serialized output sequence
Return ==
    /\ pc = "for"
    /\ idx > Len(corridors)
    /\ pc' = "returned"
    /\ UNCHANGED <<persisted, json_content, horizon, default_value, current_date,
                   corridors, idx, monthly_date, monthly_datetime_obj,
                   auctions, all_corridor_actions, calls, run>>

\* a save_state that writes the record list of the horizon and nothing else
SaveStateListOnly ==
    /\ pc = "returned"
    /\ json_content' = [json_content EXCEPT ![horizon] = state]
    /\ persisted' = [h \in Horizons |-> IF h = horizon THEN state ELSE <<>>]
    /\ pc' = "saved"
    /\ UNCHANGED <<horizon, default_value, current_date, corridors, idx,
                   monthly_date, monthly_datetime_obj, auctions, all_corridor_actions,
                   calls, run>>

\* JaoAdapter.save_state / CorridorState.save_state: the whole document is written
SaveState ==
    /\ pc = "returned"
    /\ json_content' = [json_content EXCEPT ![horizon] = state]
    /\ persisted' = json_content'
    /\ pc' = "saved"
    /\ UNCHANGED <<horizon, default_value, current_date, corridors, idx,
                   monthly_date, monthly_datetime_obj, auctions, all_corridor_actions,
                   calls, run>>

\* the next scheduled run constructs the adapter again: the state is loaded anew
NewRun ==
    /\ pc = "saved"
    /\ run < MaxRuns
    /\ json_content' = persisted
    /\ run' = run + 1
    /\ corridors' = <<>>
    /\ idx' = 0
    /\ monthly_date' = NoString
    /\ monthly_datetime_obj' = NoDatetime
    /\ auctions' = None
    /\ all_corridor_actions' = <<>>
    /\ calls' = <<>>
    /\ pc' = "constructed"
    /\ UNCHANGED <<persisted, horizon, default_value, current_date>>

Next ==
    \/ RetrieveStart
    \/ ForNext
    \/ WhileStep
    \/ WhileExit
    \/ Return
    \/ SaveState
    \/ NewRun

Spec == Init /\ [][Next]_vars

\* a run that has started is carried on to its return: the program is sequential
FairSpec == Spec /\ WF_vars(ForNext \/ WhileStep \/ WhileExit \/ Return)

----------------------------------------------------------------------------
(* The checkpoint store on its own: any sequence of get and set calls *)

\* the dates a caller sets: strftime("%Y-%m-%d") output
SetInputs ==
    { Str(2020, 1, 1, NoTime), Str(2020, 2, 1, NoTime), Str(2020, 4, 1, NoTime) }

StoreInit ==
    /\ horizon \in Horizons
    /\ default_value \in DefaultDates
    /\ \E list \in RecordLists(MaxLoaded) : persisted = Document(horizon, list)
    /\ json_content = persisted
    /\ current_date = NoDatetime
    /\ corridors = <<>>
    /\ idx = 0
    /\ monthly_date = NoString
    /\ monthly_datetime_obj = NoDatetime
    /\ auctions = None
    /\ all_corridor_actions = <<>>
    /\ calls = <<>>
    /\ pc = "store"
    /\ run = 1

\* a call of get_last_successful_monthly_date, its result kept in monthly_date
StoreGet(corridor) ==
    /\ pc = "store"
    /\ monthly_date' = get_last_successful_monthly_date(corridor)
    /\ UNCHANGED <<persisted, json_content, horizon, default_value, current_date,
                   corridors, idx, monthly_datetime_obj, auctions, all_corridor_actions,
                   calls, pc, run>>

\* a call of set_last_successful_monthly_date
StoreSet(corridor, date) ==
    /\ pc = "store"
    /\ json_content' = [json_content EXCEPT ![horizon] = SetDate(state, corridor, date)]
    /\ UNCHANGED <<persisted, horizon, default_value, current_date, corridors, idx,
                   monthly_date, monthly_datetime_obj, auctions, all_corridor_actions,
                   calls, pc, run>>

StoreNext ==
    \E corridor \in CorridorUniverse :
        \/ StoreGet(corridor)
        \/ \E date \in SetInputs : StoreSet(corridor, date)

StoreSpec == StoreInit /\ [][StoreNext]_vars

----------------------------------------------------------------------------
(* Vocabulary of the properties, written without the operators of the model *)

\* the day of a date string or of a datetime as a number, ordered as days are
DayNo(x) == (x.y * 12 + x.m) * 32 + x.d

\* midnight of the day the date string s names is strictly before the instant dt
MidnightBefore(s, dt) ==
    DayNo(s) < DayNo(dt) \/ (DayNo(s) = DayNo(dt) /\ 0 < dt.tod)

\* the last day of month m of year y
LastDay(y, m) ==
    IF m \in {1, 3, 5, 7, 8, 10, 12} THEN 31
    ELSE IF m # 2 THEN 30
    ELSE IF y % 400 = 0 \/ (y % 4 = 0 /\ y % 100 # 0) THEN 29 ELSE 28

\* the date one calendar month after date x: the next month, December followed
\* by January of the next year, the day kept if that month has it and else
\* the last day of that month
MonthAfter(x) ==
    LET n == x.y * 12 + x.m
        y2 == n \div 12
        m2 == (n % 12) + 1
    IN  [y |-> y2, m |-> m2,
         d |-> IF x.d <= LastDay(y2, m2) THEN x.d ELSE LastDay(y2, m2)]

\* x2 is x one calendar month later
OneMonthLater(x, x2) ==
    LET z == MonthAfter(x) IN x2.y = z.y /\ x2.m = z.m /\ x2.d = z.d

\* the records a list holds for a corridor
RecordsOf(list, c) == { list[k] : k \in { j \in 1..Len(list) : list[j].Corridor = c } }

\* the positions of a corridor's records in a list
PositionsOf(list, c) == { k \in 1..Len(list) : list[k].Corridor = c }

\* the date string a run starts a corridor from: the stored one, time part
\* removed, or the default date
StartOf(doc, c) ==
    LET list == doc[horizon]
        at == PositionsOf(list, c)
    IN  IF at = {} THEN [default_value EXCEPT !.t = ""]
        ELSE [list[CHOOSE k \in at : \A j \in at : k <= j].LastSuccessfulMonthlyDate
                 EXCEPT !.t = ""]

\* the calls of the run for a corridor, as positions of the log
CallsOf(c) == { k \in 1..Len(calls) : calls[k].corridor = c }

\* the position of a corridor in the filtered list, 0 if it is not in it
PosOf(c) ==
    IF \E k \in 1..Len(corridors) : corridors[k] = c
    THEN CHOOSE k \in 1..Len(corridors) : corridors[k] = c
    ELSE 0

Running == pc \in {"for", "while"}
InRun == pc \in {"for", "while", "returned"}

\* the loop of the corridor is over
Finished(c) == InRun /\ PosOf(c) # 0 /\ (pc = "returned" \/ PosOf(c) < idx)

Max(S) == CHOOSE x \in S : \A y \in S : y <= x

----------------------------------------------------------------------------
(* C1 *)

\* C1: retrieve_data terminates: a run that is in its loops reaches its return,
\* every iteration of the while loop moves the cursor strictly forward, and
\* 'now' is not changed while the run is in its loops.
C1_Terminates ==
    /\ Running ~> (pc = "returned")
    /\ [][(pc = "while" /\ calls' # calls)
            => DayNo(monthly_datetime_obj') > DayNo(monthly_datetime_obj)]_vars
    /\ [][Running => current_date' = current_date]_vars

\* a run has returned after fetches with data and fetches without
C1_Witness ==
    /\ pc = "returned"
    /\ Len(corridors) = 2
    /\ \E j, k \in 1..Len(calls) : calls[j].data /\ ~calls[k].data

----------------------------------------------------------------------------
(* C2 *)

\* C2: whatever the fetches return, the calls of a run are, corridor after
\* corridor in the order of the filtered list, the dates from the corridor's
\* start cursor on, month by month, that are below 'now', each fetched once.
C2_FailureIsolation ==
    InRun =>
    /\ \A k \in 1..Len(calls) :
        /\ PosOf(calls[k].corridor) # 0
        /\ PosOf(calls[k].corridor) <= idx
        /\ MidnightBefore(calls[k].fromdate, current_date)
        /\ calls[k].fromdate.t = ""
        /\ \A j \in 1..(k - 1) :
            /\ PosOf(calls[j].corridor) <= PosOf(calls[k].corridor)
            /\ calls[j].corridor = calls[k].corridor
                 => DayNo(calls[j].fromdate) < DayNo(calls[k].fromdate)
        /\ IF k > 1 /\ calls[k - 1].corridor = calls[k].corridor
           THEN OneMonthLater(calls[k - 1].fromdate, calls[k].fromdate)
           ELSE calls[k].fromdate = StartOf(persisted, calls[k].corridor)
    /\ \A c \in CorridorUniverse :
        Finished(c) =>
            IF MidnightBefore(StartOf(persisted, c), current_date)
            THEN /\ CallsOf(c) # {}
                 /\ ~MidnightBefore(MonthAfter(calls[Max(CallsOf(c))].fromdate),
                                    current_date)
            ELSE CallsOf(c) = {}

\* a corridor's fetch failed, the fetch of the next month was issued, and the
\* next corridor was fetched too
C2_Witness ==
    /\ pc = "returned"
    /\ Len(corridors) = 2
    /\ \E k \in 1..(Len(calls) - 2) :
        /\ ~calls[k].data
        /\ calls[k + 1].corridor = calls[k].corridor
        /\ calls[k + 2].corridor # calls[k].corridor

----------------------------------------------------------------------------
(* C3 *)

\* the batches a run must have recorded: one per call answered with data, in
\* the order of the calls
RECURSIVE BatchesOf(_)
BatchesOf(log) ==
    IF log = <<>> THEN <<>>
    ELSE LET f == log[Len(log)]
             before == BatchesOf(SubSeq(log, 1, Len(log) - 1))
         IN  IF f.data
             THEN Append(before, [corridor |-> f.corridor, from_date |-> f.fromdate,
                                  response |-> "auctions"])
             ELSE before

\* C3: an iteration whose fetch yields data appends one batch {corridor,
\* from_date = cursor, response} and sets the checkpoint of the corridor to the
\* cursor, leaving the other records alone; an iteration whose fetch yields no
\* data or an error leaves the output sequence and the whole store unchanged.
\* So the output holds one batch per successful fetch, in fetch order, and a
\* checkpoint that differs from the loaded one is the date of a successful fetch.
C3_IterationEffect ==
    /\ [][(pc = "while" /\ calls' # calls) =>
            LET f == calls'[Len(calls')]
            IN  /\ calls' = Append(calls, f)
                /\ f.corridor = corridors[idx]
                /\ DayNo(f.fromdate) = DayNo(monthly_datetime_obj) /\ f.fromdate.t = ""
                /\ IF f.data
                   THEN /\ all_corridor_actions' =
                              Append(all_corridor_actions,
                                     [corridor |-> f.corridor, from_date |-> f.fromdate,
                                      response |-> "auctions"])
                        /\ RecordsOf(state', f.corridor) =
                              { [Corridor |-> f.corridor,
                                 LastSuccessfulMonthlyDate |-> f.fromdate] }
                        /\ \A c \in CorridorUniverse \ {f.corridor} :
                              RecordsOf(state', c) = RecordsOf(state, c)
                        /\ \A h \in Horizons \ {horizon} : json_content'[h] = json_content[h]
                   ELSE /\ all_corridor_actions' = all_corridor_actions
                        /\ json_content' = json_content]_vars
    /\ [](InRun => all_corridor_actions = BatchesOf(calls))
    /\ [](InRun =>
            \A c \in CorridorUniverse :
                \/ RecordsOf(state, c) = RecordsOf(persisted[horizon], c)
                \/ \E k \in CallsOf(c) :
                      /\ calls[k].data
                      /\ RecordsOf(state, c) =
                            { [Corridor |-> c,
                               LastSuccessfulMonthlyDate |-> calls[k].fromdate] })

\* a fetch with data was followed by a fetch answered 200 with an empty body:
\* one batch is recorded and the store differs from the loaded one
C3_Witness ==
    /\ pc = "while"
    /\ Len(calls) = 2
    /\ calls[1].data /\ ~calls[2].data
    /\ auctions = "[]"
    /\ Len(all_corridor_actions) = 1
    /\ state # persisted[horizon]

----------------------------------------------------------------------------
(* C4 *)

\* the corridors of the run whose start cursor is the calendar date of 'now'
StartsToday(c) == DayNo(StartOf(persisted, c)) = DayNo(current_date)

\* C4 as stated: the guard compares dates only, so no fetch is issued for a
\* date that is not strictly before the date of 'now', and a corridor whose
\* start cursor is the date of 'now' is not fetched at all.
C4_DateOnlyGuard ==
    InRun =>
    /\ \A k \in 1..Len(calls) : DayNo(calls[k].fromdate) < DayNo(current_date)
    /\ \A c \in CorridorUniverse : (Finished(c) /\ StartsToday(c)) => CallsOf(c) = {}

\* C4 as amended: the guard compares midnight of the cursor's date with the
\* instant 'now'. A fetch is issued only for a date whose midnight is strictly
\* before 'now': never for a date after the date of 'now', and for the date of
\* 'now' itself unless 'now' is exactly midnight. A corridor whose start cursor
\* is the date of 'now' gets exactly one call, for that date, when 'now' is
\* past midnight, and none when 'now' is midnight.
C4_InstantGuard ==
    InRun =>
    /\ \A k \in 1..Len(calls) :
        /\ DayNo(calls[k].fromdate) <= DayNo(current_date)
        /\ DayNo(calls[k].fromdate) = DayNo(current_date) => current_date.tod > 0
    /\ \A c \in CorridorUniverse :
        (Finished(c) /\ StartsToday(c)) =>
            IF current_date.tod > 0
            THEN /\ Cardinality(CallsOf(c)) = 1
                 /\ \A k \in CallsOf(c) : DayNo(calls[k].fromdate) = DayNo(current_date)
            ELSE CallsOf(c) = {}

\* a run past midnight has fetched a corridor for the date of 'now'
C4_Witness ==
    /\ pc = "returned"
    /\ current_date.tod > 0
    /\ \E c \in CorridorUniverse :
        /\ Finished(c) /\ StartsToday(c)
        /\ Cardinality(CallsOf(c)) = 1

----------------------------------------------------------------------------
(* C5 *)

\* the calls of the run for a corridor that were answered with data
DataCallsOf(c) == { k \in CallsOf(c) : calls[k].data }

\* the scenario of the specification: DK1-DE alone and unseen, default date
\* 2020-01-01, 'now' on 2020-03-15, every fetch answered with data
Scenario ==
    /\ pc = "returned"
    /\ corridors = << <<"D", "K", "1", "-", "D", "E">> >>
    /\ RecordsOf(persisted[horizon], corridors[1]) = {}
    /\ default_value = [y |-> 2020, m |-> 1, d |-> 1, t |-> ""]
    /\ current_date.y = 2020 /\ current_date.m = 3 /\ current_date.d = 15
    /\ \A k \in 1..Len(calls) : calls[k].data

\* C5: when retrieve_data returns, the checkpoint of a corridor that had a
\* fetch with data is the latest date so fetched, and the records of every
\* other corridor, filtered or not, are as loaded. In the scenario the
\* checkpoint of DK1-DE is 2020-03-01.
C5_FinalCheckpoint ==
    /\ pc = "returned" =>
        \A c \in CorridorUniverse :
            IF DataCallsOf(c) = {}
            THEN RecordsOf(state, c) = RecordsOf(persisted[horizon], c)
            ELSE /\ PosOf(c) # 0
                 /\ \E k \in DataCallsOf(c) :
                      /\ \A j \in DataCallsOf(c) :
                            DayNo(calls[j].fromdate) <= DayNo(calls[k].fromdate)
                      /\ RecordsOf(state, c) =
                            { [Corridor |-> c,
                               LastSuccessfulMonthlyDate |-> calls[k].fromdate] }
    /\ Scenario =>
          RecordsOf(state, corridors[1]) =
              { [Corridor |-> corridors[1],
                 LastSuccessfulMonthlyDate |-> [y |-> 2020, m |-> 3, d |-> 1, t |-> ""]] }

\* the scenario has happened, with its three fetches
C5_Witness == Scenario /\ Len(calls) = 3

----------------------------------------------------------------------------
(* C6 *)

\* C6: a corridor whose stored checkpoint d was set by an earlier run is first
\* fetched, in the next run, for the month after d, so that the period d is
\* not fetched again. (A record that is none of the records the first document
\* can hold is one that a run has set.)
C6_ResumesAfterCheckpoint ==
    (InRun /\ run > 1) =>
        \A k \in 1..Len(calls) :
            (/\ CallsOf(calls[k].corridor) \cap 1..(k - 1) = {}
             /\ RecordsOf(persisted[horizon], calls[k].corridor) # {}
             /\ RecordsOf(persisted[horizon], calls[k].corridor) \cap Records = {})
                => OneMonthLater(StartOf(persisted, calls[k].corridor), calls[k].fromdate)

----------------------------------------------------------------------------
(* C7 *)

\* C7: in every state of the store, for every corridor c and date d, after
\* set(c, d) a get(c) returns d, and get(c2) of every other corridor c2 returns
\* what it returned before the set.
C7_SetGetRoundTrip ==
    [][\A c \in CorridorUniverse, d \in SetInputs :
          StoreSet(c, d) =>
              /\ GetDate(state', default_value', c) = d
              /\ \A c2 \in CorridorUniverse \ {c} :
                    GetDate(state', default_value', c2) = GetDate(state, default_value, c2)]_vars

\* a date was set for a corridor whose record held another date with a time
\* part, and the get that followed returned the date set
C7_Witness ==
    /\ pc = "store"
    /\ \E c \in CorridorUniverse :
        /\ RecordsOf(persisted[horizon], c) =
              { [Corridor |-> c,
                 LastSuccessfulMonthlyDate |-> [y |-> 2020, m |-> 2, d |-> 1, t |-> "T00:00:00"]] }
        /\ monthly_date = [y |-> 2020, m |-> 4, d |-> 1, t |-> ""]
        /\ RecordsOf(state, c) = { [Corridor |-> c, LastSuccessfulMonthlyDate |-> monthly_date] }
        /\ Len(state) = 3

----------------------------------------------------------------------------
(* C8 *)

\* the corridors of the records of a list, in the order of the list
CorridorsOf(list) == [k \in 1..Len(list) |-> list[k].Corridor]

\* C8: the record list holds at most one record per corridor, in every state.
\* A step never removes or moves a record; it adds a record only when an
\* iteration with data sets the date of a corridor that had none, and then
\* appends exactly that record; reading the start cursor changes nothing.
C8_OneRecordPerCorridor ==
    /\ [](\A c \in CorridorUniverse : Cardinality(PositionsOf(state, c)) <= 1)
    /\ [][/\ Len(state') >= Len(state)
          /\ SubSeq(CorridorsOf(state'), 1, Len(state)) = CorridorsOf(state)
          /\ Len(state') > Len(state) =>
                /\ pc = "while" /\ calls' # calls
                /\ calls'[Len(calls')].data
                /\ PositionsOf(state, corridors[idx]) = {}
                /\ state' = Append(state,
                                   [Corridor |-> corridors[idx],
                                    LastSuccessfulMonthlyDate |-> calls'[Len(calls')].fromdate])
          /\ pc = "for" => json_content' = json_content]_vars

\* a record was created for an unseen corridor and then updated in place,
\* beside the record of another corridor
C8_Witness ==
    /\ pc = "returned"
    /\ Len(state) = 2
    /\ Len(persisted[horizon]) = 1
    /\ Cardinality(DataCallsOf(state[2].Corridor)) >= 2

----------------------------------------------------------------------------
(* C9 *)

\* C9: the persisted document changes in no step of retrieve_data; the one
\* step that writes it is save_state after the return, and it writes the whole
\* in-memory document: the record list of the configured horizon as it is in
\* memory, and what was loaded under the other keys.
C9_NoIncrementalPersistence ==
    /\ [][InRun /\ pc' # "saved" => persisted' = persisted]_vars
    /\ [][persisted' # persisted =>
            /\ pc = "returned" /\ pc' = "saved"
            /\ persisted'[horizon] = state
            /\ \A h \in Horizons \ {horizon} : persisted'[h] = persisted[h]]_vars
    /\ [](pc = "saved" => persisted = json_content /\ persisted[horizon] = state)

\* in the middle of the loops two batches are recorded and two checkpoints
\* are set in memory, and the persisted document is not the in-memory one
C9_Witness ==
    /\ pc = "while"
    /\ Len(all_corridor_actions) >= 2
    /\ Len(state) = 2
    /\ Len(persisted[horizon]) = 0

----------------------------------------------------------------------------
(* C10 *)

\* C10: an iteration replaces the cursor by the date one calendar month
\* later: the next month, December rolling over to January of the next year,
\* the day kept when the month has it and else clamped to the last day of the
\* month; the time of day stays midnight. 2021-01-15 becomes 2021-02-15,
\* 2021-01-31 becomes 2021-02-28, 2020-01-31 becomes 2020-02-29.
C10_MonthAdvance ==
    [][(pc = "while" /\ calls' # calls) =>
          LET x == monthly_datetime_obj
              x2 == monthly_datetime_obj'
          IN  /\ OneMonthLater(x, x2)
              /\ x2.tod = 0
              /\ x2.d \in 1..LastDay(x2.y, x2.m)
              /\ x2.y * 12 + x2.m = x.y * 12 + x.m + 1
              /\ (x.y = 2021 /\ x.m = 1 /\ x.d = 15) => (x2.y = 2021 /\ x2.m = 2 /\ x2.d = 15)
              /\ (x.y = 2021 /\ x.m = 1 /\ x.d = 31) => (x2.y = 2021 /\ x2.m = 2 /\ x2.d = 28)
              /\ (x.y = 2020 /\ x.m = 1 /\ x.d = 31) => (x2.y = 2020 /\ x2.m = 2 /\ x2.d = 29)
              /\ (x.m = 12) => (x2.y = x.y + 1 /\ x2.m = 1)]_vars

\* the cursor was advanced from 2021-01-31, the date of the last call, to
\* 2021-02-28
C10_Witness ==
    /\ pc = "while"
    /\ calls # <<>>
    /\ calls[Len(calls)].fromdate = [y |-> 2021, m |-> 1, d |-> 31, t |-> ""]
    /\ monthly_datetime_obj = [y |-> 2021, m |-> 2, d |-> 28, tod |-> 0]

====
